---- MODULE Spec2Model ----
(***************************************************************************)
(* Audio-Scriber: the transcription pipeline processAudio                  *)
(* (services/geminiService), its duration prober getAudioDuration and the  *)
(* base64 encoder blobToBase64 (utils).                                    *)
(*                                                                         *)
(* One run of processAudio is modelled as a process whose position `pc`    *)
(* is the await it is suspended at.  Every action is the code that runs    *)
(* between two awaits.  Text is a sequence of tokens (one-character        *)
(* strings, plus the fixed phrases of the placeholder); durations are      *)
(* whole seconds or Infinity; byte ranges are pairs of offsets.            *)
(***************************************************************************)
EXTENDS Integers, Sequences, FiniteSets, TLC

VARIABLES
    pc,                 \* where processAudio is suspended
    audioBlob,          \* the clip: [size, decodable]
    duration,           \* result of `await getAudioDuration(audioBlob)`
    numChunks,          \* line 77
    chunkSize,          \* line 79
    i,                  \* loop counter of line 82
    transcriptionParts, \* line 81
    rawTranscript,      \* line 59
    progressLog,        \* the progress values passed to onProgress, in order
    slices,             \* the byte ranges passed to blobToBase64, in order
    calls,              \* the remote generateContent calls, in issue order
    error,              \* what processAudio rejected with ("" while it has not)
    result,             \* what processAudio returned (EmptyResult while it has not)
    \* App.tsx: the state of the App component
    recordings,         \* line 21: the list of saved recordings, without blobs
    activeRecording,    \* line 22
    newAudioDetails,    \* line 23: the pending clip
    processingStatus,   \* line 24
    errorMessage,       \* line 25: the state `error`
    \* db.ts: the object store and the requests made of it
    store,              \* the records of the object store 'recordings'
    dbQueue,            \* the requests not yet completed, oldest first
    \* the environment of the App component
    now,                \* the last value Date.now() returned
    clipsMade,          \* how many clips the recorder has delivered
    initialLoad,        \* how the getRecordingsFromDB of the mount effect ended
    transcribeClosure,  \* the newAudioDetails the running handleTranscribe captured
    requestsMade        \* how many requests the handlers have made of the store

pipelineVars == <<pc, audioBlob, duration, numChunks, chunkSize, i, transcriptionParts,
                  rawTranscript, progressLog, slices, calls, error, result>>

appVars == <<recordings, activeRecording, newAudioDetails, processingStatus,
             errorMessage, store, dbQueue, now, clipsMade, initialLoad,
             transcribeClosure, requestsMade>>

vars == <<pc, audioBlob, duration, numChunks, chunkSize, i, transcriptionParts,
          rawTranscript, progressLog, slices, calls, error, result,
          recordings, activeRecording, newAudioDetails, processingStatus,
          errorMessage, store, dbQueue, now, clipsMade, initialLoad,
          transcribeClosure, requestsMade>>

----------------------------------------------------------------------------
(* Bounds of the model *)

\* durations up to MaxChunks * MAX_CHUNK_SECONDS seconds are probed
MaxChunks == 3
\* clips of 0..MaxSize bytes
MaxSize == 4
\* iterations of the chunk loop that are followed when numChunks is Infinity
MaxIter == 3

----------------------------------------------------------------------------
(* Numbers: the IEEE doubles the code meets are the naturals and +Infinity *)

\* HTMLMediaElement.duration is +Infinity for a resource of unknown length (a
\* MediaRecorder clip that carries no duration).  The value stands for the
\* double +Infinity: every operator below tests for it before it computes.
Infinity == 2147483647

MAX_CHUNK_MINUTES == 9

MAX_CHUNK_SECONDS == MAX_CHUNK_MINUTES * 60

IsFinite(x) == x # Infinity

\* a <= b on doubles
JsLeq(a, b) == IF b = Infinity THEN TRUE ELSE IsFinite(a) /\ a <= b

\* a < b on doubles
JsLess(a, b) == IF a = Infinity THEN FALSE ELSE (b = Infinity \/ a < b)

\* Math.ceil(a / b), a >= 0 finite or Infinity, b > 0 finite or Infinity
\* (Infinity / Infinity is NaN and does not arise: sizes are finite)
MathCeilDiv(a, b) ==
    IF a = Infinity THEN Infinity
    ELSE IF b = Infinity THEN 0
    ELSE (a + b - 1) \div b

\* MathRound60 with Math.floor for Math.round
MathFloor60(a, b) ==
    IF b = Infinity THEN 0 ELSE (60 * a) \div b

\* Math.round((a / b) * 60), 0 <= a finite, b > 0 finite or Infinity;
\* Math.round rounds halves up
MathRound60(a, b) ==
    IF b = Infinity THEN 0 ELSE (120 * a + b) \div (2 * b)

Min(a, b) == IF a <= b THEN a ELSE b

Max(a, b) == IF a >= b THEN a ELSE b

----------------------------------------------------------------------------
(* Text *)

IsWhitespace(c) == c \in {" ", "\n"}

RECURSIVE TrimStart(_)
TrimStart(s) ==
    IF s = <<>> THEN s
    ELSE IF IsWhitespace(Head(s)) THEN TrimStart(Tail(s)) ELSE s

RECURSIVE TrimEnd(_)
TrimEnd(s) ==
    IF s = <<>> THEN s
    ELSE IF IsWhitespace(s[Len(s)]) THEN TrimEnd(SubSeq(s, 1, Len(s) - 1)) ELSE s

\* String.prototype.trim
Trim(s) == TrimEnd(TrimStart(s))

\* Array.prototype.join(sep)
RECURSIVE Join(_, _)
Join(parts, sep) ==
    IF parts = <<>> THEN <<>>
    ELSE IF Len(parts) = 1 THEN parts[1]
    ELSE parts[1] \o sep \o Join(Tail(parts), sep)

----------------------------------------------------------------------------
(* Values *)

\* the durations the media element reports on loadedmetadata: whole seconds
\* at and just above the multiples of MAX_CHUNK_SECONDS (a fractional
\* duration between two multiples plans as the next whole second does), and
\* Infinity
DurationValues ==
    {d \in 0..(MaxChunks * MAX_CHUNK_SECONDS) : d % MAX_CHUNK_SECONDS \in {0, 1}}
        \cup {Infinity}

\* transcriptResponse.text: empty, blank, and three different words
ResponseTexts == {<<>>, <<" ">>, <<"a">>, <<"b">>, <<"c">>}

\* JSON documents the analysis call answers with: the schema's three fields,
\* the same with a rawTranscript field of its own, and other values
AnalysisPayloads ==
    { [summary |-> "S", actionItems |-> <<"A1">>, highlights |-> <<"H1">>],
      [summary |-> "S", actionItems |-> <<"A1">>, highlights |-> <<"H1">>,
       rawTranscript |-> <<"x">>],
      [summary |-> "T", actionItems |-> <<>>, highlights |-> <<"H1", "H2">>] }

EmptyResult == [f \in {} |-> <<>>]

EmptyTranscriptError == "Failed to transcribe audio. The response was empty."

\* Placeholder with the loop index i in place of i + 1
PlaceholderZeroBased(n) ==
    << "\n", "[-- Error transcribing chunk ", ToString(n - 1),
       ". The audio segment might have been too long or corrupted. --]", "\n" >>

\* the template literal of line 105
Placeholder(n) ==
    << "\n", "[-- Error transcribing chunk ", ToString(n),
       ". The audio segment might have been too long or corrupted. --]", "\n" >>

\* Blob.slice(start, end) of a blob of `size` bytes, 0 <= start <= end:
\* both offsets are clamped to the size
BlobSlice(start, end, size) ==
    LET relativeStart == Min(start, size)
        relativeEnd   == Min(end, size)
        span          == Max(relativeEnd - relativeStart, 0)
    IN  [from |-> relativeStart, to |-> relativeStart + span]

\* SpreadResult with the spread last: { rawTranscript, ...analysisJson }
SpreadPayloadLast(analysisJson, raw) ==
    [f \in (DOMAIN analysisJson) \cup {"rawTranscript"} |->
        IF f \in DOMAIN analysisJson THEN analysisJson[f] ELSE raw]

\* { ...analysisJson, rawTranscript }
SpreadResult(analysisJson, raw) ==
    [f \in (DOMAIN analysisJson) \cup {"rawTranscript"} |->
        IF f = "rawTranscript" THEN raw ELSE analysisJson[f]]

TranscribeCall(chunk, range) ==
    [kind |-> "transcribe", chunk |-> chunk, from |-> range.from, to |-> range.to,
     text |-> <<>>, status |-> "inflight", response |-> <<>>]

AnalysisCall(raw) ==
    [kind |-> "analysis", chunk |-> 0, from |-> 0, to |-> 0,
     text |-> raw, status |-> "inflight", response |-> <<>>]

\* Settle for a call that is issued and not awaited: the code goes on while
\* the call is in flight
SettleNotAwaited(cs, status, response) == cs

\* the awaited call, which is the last one issued, settles: it resolves with a
\* response ("ok") or rejects ("failed")
Settle(cs, status, response) ==
    [cs EXCEPT ![Len(cs)].status = status, ![Len(cs)].response = response]

----------------------------------------------------------------------------
(* processAudio *)

\* null and undefined
Null == [null |-> TRUE]

\* useState line 25: no error to show; line 200 tests !error, which holds of
\* null and of the empty string alike
NoError == ""

\* useState line 24 (the message, which nothing reads but the spinner, is
\* left out)
IdleStatus == [active |-> FALSE, progress |-> 0]

\* processAudio before it is called
InitPipeline ==
    /\ pc = "idle"
    /\ audioBlob = [size |-> 0, decodable |-> TRUE]
    /\ duration = 0
    /\ numChunks = 0
    /\ chunkSize = 0
    /\ i = 0
    /\ transcriptionParts = <<>>
    /\ rawTranscript = <<>>
    /\ progressLog = <<>>
    /\ slices = <<>>
    /\ calls = <<>>
    /\ error = ""
    /\ result = EmptyResult

\* processAudio called on its own: no App component, an empty store
Init ==
    /\ InitPipeline
    /\ recordings = <<>>
    /\ activeRecording = Null
    /\ newAudioDetails = Null
    /\ processingStatus = IdleStatus
    /\ errorMessage = NoError
    /\ store = {}
    /\ dbQueue = <<>>
    /\ now = 0
    /\ clipsMade = 0
    /\ initialLoad = "none"
    /\ transcribeClosure = Null
    /\ requestsMade = 0

\* SinglePass with < for <=
SinglePassStrict(d) == IsFinite(d) /\ d < MAX_CHUNK_SECONDS

\* line 61
SinglePass(d) == JsLeq(d, MAX_CHUNK_SECONDS)

\* ChunkProgress without the offset of 20
ChunkProgressNoOffset(k, n) == MathRound60(k, n)

\* line 83
ChunkProgress(k, n) == 20 + MathRound60(k, n)

\* lines 86-88
ChunkRange(k, cs, size) == BlobSlice(k * cs, k * cs + cs, size)

\* Assemble with join('') for join(' ')
AssembleNoSeparator(parts) == Join(parts, <<>>)

\* line 108
Assemble(parts) == Join(parts, <<" ">>)

\* IsBlank without the trim
IsBlankNoTrim(raw) == Len(raw) = 0

\* line 111
IsBlank(raw) == Len(Trim(raw)) = 0

\* lines 111-135: the check of the assembled transcript, then the analysis call
FinishTranscription(raw, callsNow) ==
    /\ rawTranscript' = raw
    /\ IF IsBlank(raw)
       THEN /\ pc' = "rejected"
            /\ error' = EmptyTranscriptError
            /\ calls' = callsNow
            /\ UNCHANGED progressLog
       ELSE /\ progressLog' = Append(progressLog, 85)
            /\ calls' = Append(callsNow, AnalysisCall(raw))
            /\ pc' = "analysis_call"
            /\ UNCHANGED error

\* lines 82-89 when the loop condition holds, lines 108-135 when it does not
LoopStep(k, n, cs, parts, callsNow) ==
    /\ i' = k
    /\ transcriptionParts' = parts
    /\ IF JsLess(k, n)
       THEN /\ IsFinite(n) \/ k < MaxIter
            /\ progressLog' = Append(progressLog, ChunkProgress(k, n))
            /\ slices' = Append(slices, ChunkRange(k, cs, audioBlob.size))
            /\ pc' = "chunk_encode"
            /\ calls' = callsNow
            /\ UNCHANGED <<rawTranscript, error>>
       ELSE /\ FinishTranscription(Assemble(parts), callsNow)
            /\ UNCHANGED slices

\* line 52, up to the await of line 54
Start(size, decodable) ==
    /\ pc = "idle"
    /\ audioBlob' = [size |-> size, decodable |-> decodable]
    /\ progressLog' = Append(progressLog, 5)
    /\ pc' = "probing"
    /\ UNCHANGED <<duration, numChunks, chunkSize, i, transcriptionParts,
                   rawTranscript, slices, calls, error, result>>

\* lines 54-64 (single pass) or 54-89 (chunked), once the probe resolved to d
AfterProbe(d) ==
    /\ duration' = d
    /\ IF SinglePass(d)
       THEN /\ progressLog' = Append(progressLog, 20)
            /\ pc' = "single_encode"
            /\ UNCHANGED <<numChunks, chunkSize, i, transcriptionParts,
                           rawTranscript, slices, calls, error>>
       ELSE /\ numChunks' = MathCeilDiv(d, MAX_CHUNK_SECONDS)
            /\ chunkSize' = MathCeilDiv(audioBlob.size, numChunks')
            /\ LoopStep(0, numChunks', chunkSize', <<>>, calls)
    /\ UNCHANGED <<audioBlob, result>>

\* getAudioDuration, lines 40-43: the media element fires loadedmetadata
ProbeLoadedMetadata(d) ==
    /\ pc = "probing"
    /\ audioBlob.decodable
    /\ AfterProbe(d)

\* ProbeError with reject(...) for resolve(0)
ProbeErrorRejects ==
    /\ pc = "probing"
    /\ ~audioBlob.decodable
    /\ pc' = "rejected"
    /\ error' = "ProbeError"
    /\ UNCHANGED <<audioBlob, duration, numChunks, chunkSize, i, transcriptionParts,
                   rawTranscript, progressLog, slices, calls, result>>

\* getAudioDuration, lines 44-47: the media element fires error
ProbeError ==
    /\ pc = "probing"
    /\ ~audioBlob.decodable
    /\ AfterProbe(0)

\* blobToBase64 resolves at line 64; lines 65-73 issue the call
SingleEncodeResolve ==
    /\ pc = "single_encode"
    /\ calls' = Append(calls, TranscribeCall(0, [from |-> 0, to |-> audioBlob.size]))
    /\ pc' = "single_call"
    /\ UNCHANGED <<audioBlob, duration, numChunks, chunkSize, i, transcriptionParts,
                   rawTranscript, progressLog, slices, error, result>>

\* blobToBase64 rejects at line 64 (part_004 lines 10-16): nothing catches it
SingleEncodeReject ==
    /\ pc = "single_encode"
    /\ pc' = "rejected"
    /\ error' = "EncodeError"
    /\ UNCHANGED <<audioBlob, duration, numChunks, chunkSize, i, transcriptionParts,
                   rawTranscript, progressLog, slices, calls, result>>

\* the call of line 65 resolves; line 74, then lines 111-135
SingleCallResolve(text) ==
    /\ pc = "single_call"
    /\ FinishTranscription(text, Settle(calls, "ok", text))
    /\ UNCHANGED <<audioBlob, duration, numChunks, chunkSize, i, transcriptionParts,
                   slices, result>>

\* SingleCallReject with the call of line 65 inside a try like that of line 91
SingleCallRejectCaught ==
    /\ pc = "single_call"
    /\ FinishTranscription(Placeholder(1), Settle(calls, "failed", <<>>))
    /\ UNCHANGED <<audioBlob, duration, numChunks, chunkSize, i, transcriptionParts,
                   slices, result>>

\* the call of line 65 rejects: nothing catches it
SingleCallReject ==
    /\ pc = "single_call"
    /\ calls' = Settle(calls, "failed", <<>>)
    /\ pc' = "rejected"
    /\ error' = "TranscriptionError"
    /\ UNCHANGED <<audioBlob, duration, numChunks, chunkSize, i, transcriptionParts,
                   rawTranscript, progressLog, slices, result>>

\* blobToBase64 resolves at line 89; lines 91-100 issue the call for chunk i
ChunkEncodeResolve ==
    /\ pc = "chunk_encode"
    /\ calls' = Append(calls, TranscribeCall(i, slices[Len(slices)]))
    /\ pc' = "chunk_call"
    /\ UNCHANGED <<audioBlob, duration, numChunks, chunkSize, i, transcriptionParts,
                   rawTranscript, progressLog, slices, error, result>>

\* blobToBase64 rejects at line 89, which is outside the try of line 91
ChunkEncodeReject ==
    /\ pc = "chunk_encode"
    /\ pc' = "rejected"
    /\ error' = "EncodeError"
    /\ UNCHANGED <<audioBlob, duration, numChunks, chunkSize, i, transcriptionParts,
                   rawTranscript, progressLog, slices, calls, result>>

\* the call of line 92 resolves; line 101, i++, and the next iteration or the end
ChunkCallResolve(text) ==
    /\ pc = "chunk_call"
    /\ LoopStep(i + 1, numChunks, chunkSize, Append(transcriptionParts, text),
                Settle(calls, "ok", text))
    /\ UNCHANGED <<audioBlob, duration, numChunks, chunkSize, result>>

\* a catch that pushes an empty segment for the failed chunk
ChunkCallRejectPushesNothing ==
    /\ pc = "chunk_call"
    /\ LoopStep(i + 1, numChunks, chunkSize, Append(transcriptionParts, <<>>),
                Settle(calls, "failed", <<>>))
    /\ UNCHANGED <<audioBlob, duration, numChunks, chunkSize, result>>

\* the call of line 92 rejects; lines 102-106, i++, and the next iteration or the end
ChunkCallReject ==
    /\ pc = "chunk_call"
    /\ LoopStep(i + 1, numChunks, chunkSize,
                Append(transcriptionParts, Placeholder(i + 1)),
                Settle(calls, "failed", <<>>))
    /\ UNCHANGED <<audioBlob, duration, numChunks, chunkSize, result>>

\* the call of line 128 resolves with a JSON document; lines 137-140
AnalysisCallResolve(analysisJson) ==
    /\ pc = "analysis_call"
    /\ calls' = Settle(calls, "ok", analysisJson)
    /\ progressLog' = Append(progressLog, 100)
    /\ result' = SpreadResult(analysisJson, rawTranscript)
    /\ pc' = "done"
    /\ UNCHANGED <<audioBlob, duration, numChunks, chunkSize, i, transcriptionParts,
                   rawTranscript, slices, error>>

\* the call of line 128 resolves with text that is no JSON: line 137 throws
AnalysisCallMalformed ==
    /\ pc = "analysis_call"
    /\ calls' = Settle(calls, "ok", <<>>)
    /\ pc' = "rejected"
    /\ error' = "SyntaxError"
    /\ UNCHANGED <<audioBlob, duration, numChunks, chunkSize, i, transcriptionParts,
                   rawTranscript, progressLog, slices, result>>

\* the call of line 128 rejects
AnalysisCallReject ==
    /\ pc = "analysis_call"
    /\ calls' = Settle(calls, "failed", <<>>)
    /\ pc' = "rejected"
    /\ error' = "AnalysisError"
    /\ UNCHANGED <<audioBlob, duration, numChunks, chunkSize, i, transcriptionParts,
                   rawTranscript, progressLog, slices, result>>

Next ==
    \/ \E size \in 0..MaxSize, decodable \in BOOLEAN : Start(size, decodable) /\ UNCHANGED appVars
    \/ \E d \in DurationValues : ProbeLoadedMetadata(d) /\ UNCHANGED appVars
    \/ ProbeError /\ UNCHANGED appVars
    \/ SingleEncodeResolve /\ UNCHANGED appVars
    \/ SingleEncodeReject /\ UNCHANGED appVars
    \/ \E text \in ResponseTexts : SingleCallResolve(text) /\ UNCHANGED appVars
    \/ SingleCallReject /\ UNCHANGED appVars
    \/ ChunkEncodeResolve /\ UNCHANGED appVars
    \/ ChunkEncodeReject /\ UNCHANGED appVars
    \/ \E text \in ResponseTexts : ChunkCallResolve(text) /\ UNCHANGED appVars
    \/ ChunkCallReject /\ UNCHANGED appVars
    \/ \E analysisJson \in AnalysisPayloads : AnalysisCallResolve(analysisJson) /\ UNCHANGED appVars
    \/ AnalysisCallMalformed /\ UNCHANGED appVars
    \/ AnalysisCallReject /\ UNCHANGED appVars

Spec == Init /\ [][Next]_vars

\* Long clips: the same run on a clip of one byte that is short, or that
\* plans more chunks than Spec follows, with one response text
MinLongChunks == 7

MaxLongChunks == 8

LongDurations ==
    {0} \cup {n * MAX_CHUNK_SECONDS : n \in MinLongChunks..MaxLongChunks}

NextLong ==
    \/ \E decodable \in BOOLEAN : Start(1, decodable) /\ UNCHANGED appVars
    \/ \E d \in LongDurations : ProbeLoadedMetadata(d) /\ UNCHANGED appVars
    \/ ProbeError /\ UNCHANGED appVars
    \/ SingleEncodeResolve /\ UNCHANGED appVars
    \/ SingleEncodeReject /\ UNCHANGED appVars
    \/ SingleCallResolve(<<"a">>) /\ UNCHANGED appVars
    \/ SingleCallReject /\ UNCHANGED appVars
    \/ ChunkEncodeResolve /\ UNCHANGED appVars
    \/ ChunkEncodeReject /\ UNCHANGED appVars
    \/ ChunkCallResolve(<<"a">>) /\ UNCHANGED appVars
    \/ ChunkCallReject /\ UNCHANGED appVars
    \/ \E analysisJson \in AnalysisPayloads : AnalysisCallResolve(analysisJson) /\ UNCHANGED appVars
    \/ AnalysisCallMalformed /\ UNCHANGED appVars
    \/ AnalysisCallReject /\ UNCHANGED appVars

SpecLong == Init /\ [][NextLong]_vars

----------------------------------------------------------------------------
(* db.ts: the object store 'recordings', keyPath 'id' *)

\* store.get(id), line 68: the record with that key, or undefined
DbGet(st, id) ==
    IF \E x \in st : x.id = id THEN CHOOSE x \in st : x.id = id ELSE Null

\* a store that adds the record beside the one with its key
DbPutBeside(st, rec) == st \cup {rec}

\* store.put(recording), line 35: the record replaces the one with its key
DbPut(st, rec) == {x \in st : x.id # rec.id} \cup {rec}

\* store.delete(id), line 81
DbDelete(st, id) == {x \in st : x.id # id}

\* store.getAll(), line 47: the records in key order (the keys of saved
\* records are the digits of Date.now(), which order as the numbers do)
RECURSIVE DbGetAll(_)
DbGetAll(st) ==
    IF st = {} THEN <<>>
    ELSE LET first == CHOOSE x \in st : \A y \in st : x.id.n <= y.id.n
         IN  <<first>> \o DbGetAll(st \ {first})

\* const { audioBlob, ...rest } = rec
StripBlob(rec) == [f \in (DOMAIN rec) \ {"audioBlob"} |-> rec[f]]

\* request.result.map(rec => rest), lines 50-53
WithoutBlobs(s) == [k \in 1..Len(s) |-> StripBlob(s[k])]

\* x placed in a list sorted by date, most recent first, behind its equals
RECURSIVE InsertByDate(_, _)
InsertByDate(x, s) ==
    IF s = <<>> THEN <<x>>
    ELSE IF Head(s).date >= x.date THEN <<Head(s)>> \o InsertByDate(x, Tail(s))
    ELSE <<x>> \o s

\* sort((a, b) => new Date(b.date) - new Date(a.date)), line 55; the sort is
\* stable
RECURSIVE SortByDateDesc(_)
SortByDateDesc(s) ==
    IF s = <<>> THEN <<>>
    ELSE InsertByDate(s[Len(s)], SortByDateDesc(SubSeq(s, 1, Len(s) - 1)))

\* the records without their blobs, left in the order getAll gave them
RecordingsInKeyOrder(st) == WithoutBlobs(DbGetAll(st))

\* getRecordingsFromDB, lines 48-55
RecordingsFromDB(st) == SortByDateDesc(WithoutBlobs(DbGetAll(st)))

----------------------------------------------------------------------------
(* App.tsx *)

\* bounds of the App model
MaxClips == 1

MaxRequests == 3

MaxClock == 4

TheBlob == [size |-> 1, decodable |-> TRUE]

ThePayload == [summary |-> "S", actionItems |-> <<"A1">>, highlights |-> <<"H1">>]

PermanentId(n) == [temp |-> FALSE, n |-> n]

\* `temp-${Date.now()}`, line 61
TempId(n) == [temp |-> TRUE, n |-> n]

\* URL.createObjectURL: a URL of its own at each call; made tells the call
\* (line 42 for a recorded clip, line 129 for a selected record, an earlier
\* session for the records the store opens on)
ObjectUrl(made, n) == [made |-> made, n |-> n]

OldRecording(k) ==
    [id |-> PermanentId(k), name |-> "Recording", date |-> k,
     audioUrl |-> ObjectUrl("earlier", k),
     audioBlob |-> TheBlob,
     transcription |-> SpreadResult(ThePayload, <<"a">>)]

\* the store the session opens on: two records saved by earlier sessions
InitialStore == {OldRecording(1), OldRecording(2)}

\* a request made of the object store, and the handler that awaits it
Request(op, handler, id, rec, name, activeId) ==
    [op |-> op, handler |-> handler, id |-> id, rec |-> rec, name |-> name,
     activeId |-> activeId]

\* activeRecording?.id
IdOf(recording) == IF recording = Null THEN Null ELSE recording.id

Last(s) == s[Len(s)]

\* Date.now() and new Date(): a time not before the last one read
ClockValues == {t \in {now, now + 1} : t <= MaxClock}

InitApp ==
    /\ InitPipeline
    /\ recordings = <<>>
    /\ activeRecording = Null
    /\ newAudioDetails = Null
    /\ processingStatus = IdleStatus
    /\ errorMessage = NoError
    /\ store = InitialStore
    /\ dbQueue = <<Request("getAll", "load", Null, Null, "", Null)>>
    /\ now = Cardinality(InitialStore) + 1
    /\ clipsMade = 0
    /\ initialLoad = "pending"
    /\ transcribeClosure = Null
    /\ requestsMade = 0

\* the condition under which line 200 renders the 'Transcribe & Analyze' button
TranscribeAvailable ==
    /\ ~processingStatus.active
    /\ errorMessage = NoError
    /\ activeRecording = Null
    /\ newAudioDetails # Null

\* handleRecordingComplete, lines 41-45; the recorder's button is disabled
\* while a run is in progress (AudioRecorder.tsx line 182)
HandleRecordingComplete ==
    /\ ~processingStatus.active
    /\ clipsMade < MaxClips
    /\ clipsMade' = clipsMade + 1
    /\ newAudioDetails' = [url |-> ObjectUrl("clip", clipsMade + 1), blob |-> TheBlob]
    /\ activeRecording' = Null
    /\ UNCHANGED <<recordings, processingStatus, errorMessage, store, dbQueue, now,
                   initialLoad, transcribeClosure, requestsMade>>
    /\ UNCHANGED pipelineVars

\* setProcessingStatus of line 55, for the last progress value reported
StatusAfter(log, status) ==
    IF log = <<>> THEN status ELSE [active |-> TRUE, progress |-> Last(log)]

\* handleTranscribe, lines 47-59, up to the first await of processAudio
HandleTranscribe ==
    /\ TranscribeAvailable
    /\ newAudioDetails # Null
    /\ Start(newAudioDetails.blob.size, newAudioDetails.blob.decodable)
    /\ transcribeClosure' = newAudioDetails
    /\ processingStatus' = StatusAfter(progressLog', [active |-> TRUE, progress |-> 0])
    /\ errorMessage' = NoError
    /\ activeRecording' = Null
    /\ UNCHANGED <<recordings, newAudioDetails, store, dbQueue, now, clipsMade,
                   initialLoad, requestsMade>>

\* a step of the processAudio that handleTranscribe awaits; onProgress, lines
\* 54-56, sets the status when the step reports progress
RunStep(Step) ==
    /\ Step
    /\ processingStatus' =
          IF progressLog' # progressLog
          THEN StatusAfter(progressLog', processingStatus)
          ELSE processingStatus
    /\ UNCHANGED <<recordings, activeRecording, newAudioDetails, errorMessage, store,
                   dbQueue, now, clipsMade, initialLoad, transcribeClosure, requestsMade>>

\* the invocation of processAudio is over
ResetPipeline ==
    /\ pc' = "idle"
    /\ audioBlob' = [size |-> 0, decodable |-> TRUE]
    /\ duration' = 0
    /\ numChunks' = 0
    /\ chunkSize' = 0
    /\ i' = 0
    /\ transcriptionParts' = <<>>
    /\ rawTranscript' = <<>>
    /\ progressLog' = <<>>
    /\ slices' = <<>>
    /\ calls' = <<>>
    /\ error' = ""
    /\ result' = EmptyResult

\* line 72: the message of the Error processAudio rejected with; what
\* blobToBase64 rejects with can be an event, which is no Error
MessageOf(e) ==
    IF e = "EncodeError" THEN "An unknown error occurred during transcription."
    ELSE e

\* a handleTranscribe without the finally of lines 73-75
TranscribeResolvedNoFinally ==
    /\ pc = "done"
    /\ \E t \in ClockValues :
          /\ now' = t
          /\ activeRecording' =
                [id |-> TempId(t), name |-> "Recording", date |-> t,
                 audioUrl |-> transcribeClosure.url,
                 audioBlob |-> transcribeClosure.blob,
                 transcription |-> result]
    /\ newAudioDetails' = Null
    /\ UNCHANGED processingStatus
    /\ transcribeClosure' = Null
    /\ ResetPipeline
    /\ UNCHANGED <<recordings, errorMessage, store, dbQueue, clipsMade, initialLoad,
                   requestsMade>>

\* handleTranscribe, lines 60-69 and 73-75: processAudio returned
TranscribeResolved ==
    /\ pc = "done"
    /\ \E t \in ClockValues :
          /\ now' = t
          /\ activeRecording' =
                [id |-> TempId(t), name |-> "Recording", date |-> t,
                 audioUrl |-> transcribeClosure.url,
                 audioBlob |-> transcribeClosure.blob,
                 transcription |-> result]
    /\ newAudioDetails' = Null
    /\ processingStatus' = IdleStatus
    /\ transcribeClosure' = Null
    /\ ResetPipeline
    /\ UNCHANGED <<recordings, errorMessage, store, dbQueue, clipsMade, initialLoad,
                   requestsMade>>

\* a catch that drops the pending clip as well
TranscribeRejectedDropsClip ==
    /\ pc = "rejected"
    /\ errorMessage' = MessageOf(error)
    /\ newAudioDetails' = Null
    /\ processingStatus' = IdleStatus
    /\ transcribeClosure' = Null
    /\ ResetPipeline
    /\ UNCHANGED <<recordings, activeRecording, store, dbQueue, now, clipsMade,
                   initialLoad, requestsMade>>

\* handleTranscribe, lines 70-75: processAudio rejected
TranscribeRejected ==
    /\ pc = "rejected"
    /\ errorMessage' = MessageOf(error)
    /\ processingStatus' = IdleStatus
    /\ transcribeClosure' = Null
    /\ ResetPipeline
    /\ UNCHANGED <<recordings, activeRecording, newAudioDetails, store, dbQueue, now,
                   clipsMade, initialLoad, requestsMade>>

\* the request is handed to the object store; IndexedDB serves the requests
\* in the order they were made
Enqueue(q, req) == Append(q, req)

\* a handler makes a request of the store
MakeRequest(req) ==
    /\ requestsMade < MaxRequests
    /\ requestsMade' = requestsMade + 1
    /\ dbQueue' = Enqueue(dbQueue, req)

AppVarsButQueue ==
    <<recordings, activeRecording, newAudioDetails, processingStatus, errorMessage,
      store, now, clipsMade, initialLoad, transcribeClosure>>

\* a handleSave that writes the active recording under the id it has
HandleSaveKeepsId ==
    /\ activeRecording # Null
    /\ activeRecording.id.temp
    /\ \E t \in ClockValues :
          /\ now' = t
          /\ MakeRequest(
                Request("put", "save", activeRecording.id, activeRecording, "", Null))
    /\ UNCHANGED <<recordings, activeRecording, newAudioDetails, processingStatus,
                   errorMessage, store, clipsMade, initialLoad, transcribeClosure>>
    /\ UNCHANGED pipelineVars

\* handleSave, lines 78-87, up to the await; line 231 renders the Save
\* button while the active recording is unsaved
HandleSave ==
    /\ activeRecording # Null
    /\ activeRecording.id.temp
    /\ \E t \in ClockValues :
          /\ now' = t
          /\ MakeRequest(
                Request("put", "save", PermanentId(t),
                        [activeRecording EXCEPT !.id = PermanentId(t)], "", Null))
    /\ UNCHANGED <<recordings, activeRecording, newAudioDetails, processingStatus,
                   errorMessage, store, clipsMade, initialLoad, transcribeClosure>>
    /\ UNCHANGED pipelineVars

\* handleRenameRecording, lines 97-103: the unsaved active recording is
\* renamed in memory
HandleRenameTemp(newName) ==
    /\ newName # ""
    /\ activeRecording # Null
    /\ activeRecording.id.temp
    /\ activeRecording' = [activeRecording EXCEPT !.name = newName]
    /\ UNCHANGED <<recordings, newAudioDetails, processingStatus, errorMessage, store,
                   dbQueue, now, clipsMade, initialLoad, transcribeClosure, requestsMade>>
    /\ UNCHANGED pipelineVars

\* handleRenameRecording, lines 97-106, up to the first await; line 228
\* passes the id of the active recording
HandleRenameRecording(newName) ==
    /\ newName # ""
    /\ activeRecording # Null
    /\ ~activeRecording.id.temp
    /\ MakeRequest(
          Request("get", "rename", activeRecording.id, Null, newName,
                  IdOf(activeRecording)))
    /\ UNCHANGED AppVarsButQueue
    /\ UNCHANGED pipelineVars

\* handleSelectRecording, lines 125-127, up to the await
HandleSelectRecording(k) ==
    /\ k \in 1..Len(recordings)
    /\ MakeRequest(
          Request("get", "select", recordings[k].id, Null, "", Null))
    /\ UNCHANGED AppVarsButQueue
    /\ UNCHANGED pipelineVars

\* handleDeleteRecording, lines 147-150, up to the await (the user confirms)
HandleDeleteRecording(k) ==
    /\ k \in 1..Len(recordings)
    /\ MakeRequest(
          Request("delete", "delete", recordings[k].id, Null, "", IdOf(activeRecording)))
    /\ UNCHANGED AppVarsButQueue
    /\ UNCHANGED pipelineVars

\* the request the object store serves next
Serving(handler) == dbQueue # <<>> /\ Head(dbQueue).handler = handler

\* the mount effect, lines 28-32: getRecordingsFromDB resolved
LoadResolved ==
    /\ Serving("load")
    /\ recordings' = RecordingsFromDB(store)
    /\ initialLoad' = "ok"
    /\ dbQueue' = Tail(dbQueue)
    /\ UNCHANGED <<activeRecording, newAudioDetails, processingStatus, errorMessage,
                   store, now, clipsMade, transcribeClosure, requestsMade>>
    /\ UNCHANGED pipelineVars

\* handleSave, lines 87-90: saveRecordingToDB resolved
SaveResolved ==
    /\ Serving("save")
    /\ LET permanentRecording == Head(dbQueue).rec
       IN  /\ store' = DbPut(store, permanentRecording)
           /\ recordings' = <<StripBlob(permanentRecording)>> \o recordings
           /\ activeRecording' = permanentRecording
    /\ dbQueue' = Tail(dbQueue)
    /\ UNCHANGED <<newAudioDetails, processingStatus, errorMessage, now, clipsMade,
                   initialLoad, transcribeClosure, requestsMade>>
    /\ UNCHANGED pipelineVars

\* handleRenameRecording, lines 106-110: getRecordingByIdFromDB resolved; a
\* missing record throws into the catch of lines 119-122
RenameGetResolved ==
    /\ Serving("rename")
    /\ LET req == Head(dbQueue)
           recordingToUpdate == DbGet(store, req.id)
       IN  IF recordingToUpdate = Null
           THEN /\ errorMessage' = "Could not rename the recording."
                /\ dbQueue' = Tail(dbQueue)
           ELSE /\ dbQueue' = Enqueue(Tail(dbQueue),
                      Request("put", "renamePut", req.id,
                              [recordingToUpdate EXCEPT !.name = req.name],
                              req.name, req.activeId))
                /\ UNCHANGED errorMessage
    /\ UNCHANGED <<recordings, activeRecording, newAudioDetails, processingStatus,
                   store, now, clipsMade, initialLoad, transcribeClosure, requestsMade>>
    /\ UNCHANGED pipelineVars

RenameIn(list, id, newName) ==
    [k \in 1..Len(list) |->
        IF list[k].id = id THEN [list[k] EXCEPT !.name = newName] ELSE list[k]]

\* handleRenameRecording, lines 110-118: saveRecordingToDB resolved
RenamePutResolved ==
    /\ Serving("renamePut")
    /\ LET req == Head(dbQueue)
       IN  /\ store' = DbPut(store, req.rec)
           /\ recordings' = RenameIn(recordings, req.id, req.name)
           /\ activeRecording' =
                 IF req.activeId = req.id /\ activeRecording # Null
                 THEN [activeRecording EXCEPT !.name = req.name]
                 ELSE activeRecording
    /\ dbQueue' = Tail(dbQueue)
    /\ UNCHANGED <<newAudioDetails, processingStatus, errorMessage, now, clipsMade,
                   initialLoad, transcribeClosure, requestsMade>>
    /\ UNCHANGED pipelineVars

\* handleSelectRecording, lines 127-144: getRecordingByIdFromDB resolved
SelectResolved ==
    /\ Serving("select")
    /\ LET fullRecording == DbGet(store, Head(dbQueue).id)
       IN  IF fullRecording # Null
           THEN /\ activeRecording' =
                      [fullRecording EXCEPT !.audioUrl = ObjectUrl("select", fullRecording.id.n)]
                /\ newAudioDetails' = Null
                /\ UNCHANGED errorMessage
           ELSE /\ errorMessage' = "Could not load the selected recording's audio."
                /\ UNCHANGED <<activeRecording, newAudioDetails>>
    /\ dbQueue' = Tail(dbQueue)
    /\ UNCHANGED <<recordings, processingStatus, store, now, clipsMade, initialLoad,
                   transcribeClosure, requestsMade>>
    /\ UNCHANGED pipelineVars

RemoveFrom(list, id) == SelectSeq(list, LAMBDA r : r.id # id)

\* handleDeleteRecording, lines 150-154: deleteRecordingFromDB resolved
DeleteResolved ==
    /\ Serving("delete")
    /\ LET req == Head(dbQueue)
       IN  /\ store' = DbDelete(store, req.id)
           /\ recordings' = RemoveFrom(recordings, req.id)
           /\ activeRecording' =
                 IF req.activeId = req.id THEN Null ELSE activeRecording
    /\ dbQueue' = Tail(dbQueue)
    /\ UNCHANGED <<newAudioDetails, processingStatus, errorMessage, now, clipsMade,
                   initialLoad, transcribeClosure, requestsMade>>
    /\ UNCHANGED pipelineVars

\* the message each handler's catch sets (lines 35, 93, 121, 143, 157)
CatchMessage(handler) ==
    CASE handler = "load" -> "Could not load saved recordings."
      [] handler = "save" -> "Could not save the recording."
      [] handler = "rename" -> "Could not rename the recording."
      [] handler = "renamePut" -> "Could not rename the recording."
      [] handler = "select" -> "Could not load the selected recording's audio."
      [] handler = "delete" -> "Could not delete the recording."

\* the request fails (db.ts lines 36, 58, 70, 83 reject) and the handler's
\* catch runs
RequestRejected ==
    /\ dbQueue # <<>>
    /\ errorMessage' = CatchMessage(Head(dbQueue).handler)
    /\ initialLoad' = IF Head(dbQueue).handler = "load" THEN "failed" ELSE initialLoad
    /\ dbQueue' = Tail(dbQueue)
    /\ UNCHANGED <<recordings, activeRecording, newAudioDetails, processingStatus,
                   store, now, clipsMade, transcribeClosure, requestsMade>>
    /\ UNCHANGED pipelineVars

\* the clips and replies the App model runs on
AppTexts == {<<>>, <<"a">>}

NextApp ==
    \/ HandleRecordingComplete
    \/ HandleTranscribe
    \/ RunStep(ProbeLoadedMetadata(0))
    \/ RunStep(SingleEncodeResolve)
    \/ RunStep(SingleEncodeReject)
    \/ \E text \in AppTexts : RunStep(SingleCallResolve(text))
    \/ RunStep(SingleCallReject)
    \/ RunStep(AnalysisCallResolve(ThePayload))
    \/ RunStep(AnalysisCallMalformed)
    \/ RunStep(AnalysisCallReject)
    \/ TranscribeResolved
    \/ TranscribeRejected
    \/ HandleSave
    \/ HandleRenameTemp("Renamed")
    \/ HandleRenameRecording("Renamed")
    \/ \E k \in 1..Len(recordings) : HandleSelectRecording(k)
    \/ \E k \in 1..Len(recordings) : HandleDeleteRecording(k)
    \/ LoadResolved
    \/ SaveResolved
    \/ RenameGetResolved
    \/ RenamePutResolved
    \/ SelectResolved
    \/ DeleteResolved
    \/ RequestRejected

SpecApp == InitApp /\ [][NextApp]_vars

----------------------------------------------------------------------------
(* Vocabulary of the properties *)

Probed == pc \notin {"idle", "probing"}

\* the probed duration is at most MAX_CHUNK_SECONDS
SinglePassMode == Probed /\ duration # Infinity /\ duration <= MAX_CHUNK_SECONDS

\* the probed duration is above MAX_CHUNK_SECONDS
ChunkedMode == Probed /\ (duration = Infinity \/ duration > MAX_CHUNK_SECONDS)

TranscribeCalls == {k \in 1..Len(calls) : calls[k].kind = "transcribe"}

AnalysisCalls == {k \in 1..Len(calls) : calls[k].kind = "analysis"}

\* the transcription phase is over and rawTranscript holds its outcome
Assembled ==
    \/ pc \in {"analysis_call", "done"}
    \/ pc = "rejected" /\ error \notin {"EncodeError", "TranscriptionError"}

\* every character is whitespace
Blank(raw) == \A k \in 1..Len(raw) : raw[k] \in {" ", "\n"}

\* the segment is the diagnostic placeholder that names chunk n
NamesChunk(segment, n) ==
    /\ Len(segment) = 5
    /\ segment[2] = "[-- Error transcribing chunk "
    /\ segment[3] = ToString(n)

\* [k * chunkSize, k * chunkSize + chunkSize) clamped to the clip
PlannedRange(k) ==
    [from |-> Min(k * chunkSize, audioBlob.size),
     to   |-> Min(k * chunkSize + chunkSize, audioBlob.size)]

\* the chunk indices 0..numChunks-1; of infinitely many, those the model follows
\* (with numChunks = Infinity, chunkSize is 0 and every range is [0, 0))
ChunkIndices ==
    IF numChunks = Infinity THEN 0..(MaxIter - 1) ELSE 0..(numChunks - 1)

----------------------------------------------------------------------------
(* Properties *)

\* C1: in chunked mode numChunks = ceil(duration / 540) and chunkSize =
\* ceil(totalSize / numChunks); the ranges sliced are the planned ranges
\* clamped to the clip, every byte of [0, totalSize) lies in exactly one of
\* them, and the last chunk ends at totalSize.
C1_ChunksCoverClip ==
    ChunkedMode =>
        /\ IF duration = Infinity
           THEN numChunks = Infinity /\ chunkSize = 0
           ELSE /\ numChunks * MAX_CHUNK_SECONDS >= duration
                /\ (numChunks - 1) * MAX_CHUNK_SECONDS < duration
                /\ chunkSize * numChunks >= audioBlob.size
                /\ (chunkSize - 1) * numChunks < audioBlob.size
        /\ \A k \in 1..Len(slices) : slices[k] = PlannedRange(k - 1)
        /\ \A b \in 0..(audioBlob.size - 1) :
              Cardinality({k \in ChunkIndices :
                  PlannedRange(k).from <= b /\ b < PlannedRange(k).to}) = 1
        /\ IsFinite(numChunks) => PlannedRange(numChunks - 1).to = audioBlob.size

C3_FailedChunkGetsPlaceholder ==
    ChunkedMode =>
        /\ error # "TranscriptionError"
        /\ \A k \in TranscribeCalls :
              /\ calls[k].chunk = k - 1
              /\ calls[k].status = "ok" =>
                    /\ Len(transcriptionParts) >= k
                    /\ transcriptionParts[k] = calls[k].response
              /\ calls[k].status = "failed" =>
                    /\ Len(transcriptionParts) >= k
                    /\ NamesChunk(transcriptionParts[k], k)
                    /\ IF JsLess(k, numChunks)
                       THEN Len(slices) >= k + 1
                       ELSE pc \in {"analysis_call", "done", "rejected"}
                            /\ error \in {"", "SyntaxError", "AnalysisError"}

C3_Witness ==
    /\ pc = "done"
    /\ numChunks = 3
    /\ calls[1].status = "ok" /\ calls[1].response = <<"a">>
    /\ calls[2].status = "ok" /\ calls[2].response = <<"b">>
    /\ calls[3].status = "failed"
    /\ transcriptionParts[3][3] = "3"

\* C4: in single-pass mode a failed transcription call is not replaced by a
\* placeholder: processAudio rejects with the failure, no analysis call is
\* made and no progress above 20 is reported.
C4_SinglePassFailurePropagates ==
    (SinglePassMode /\ \E k \in TranscribeCalls : calls[k].status = "failed") =>
        /\ pc = "rejected"
        /\ error = "TranscriptionError"
        /\ AnalysisCalls = {}
        /\ \A k \in 1..Len(progressLog) : progressLog[k] <= 20
        /\ transcriptionParts = <<>>
        /\ rawTranscript = <<>>
        /\ result = EmptyResult

C4_Witness ==
    /\ SinglePassMode
    /\ Len(calls) = 1
    /\ calls[1].status = "failed"
    /\ pc = "rejected"

\* C5: whenever the assembled transcript is empty or whitespace-only, in
\* either mode, processAudio has failed with the 'response was empty' error
\* and no analysis call was issued.
C5_BlankTranscriptFails ==
    (Assembled /\ Blank(rawTranscript)) =>
        /\ pc = "rejected"
        /\ error = EmptyTranscriptError
        /\ AnalysisCalls = {}
        /\ \A k \in 1..Len(progressLog) : progressLog[k] < 85

C5_Witness ==
    /\ ChunkedMode
    /\ Assembled
    /\ Len(rawTranscript) > 0
    /\ Blank(rawTranscript)
    /\ error = EmptyTranscriptError

\* the segments 1..k joined from the left, one space before each but the first
RECURSIVE JoinedUpTo(_, _)
JoinedUpTo(parts, k) ==
    IF k = 0 THEN <<>>
    ELSE IF k = 1 THEN parts[1]
    ELSE JoinedUpTo(parts, k - 1) \o <<" ">> \o parts[k]

\* C6: when a run has succeeded, the progress values it reported are
\* non-decreasing, each is an integer in 0..100, and the last one is 100.
C6_ProgressMonotone ==
    pc = "done" =>
        /\ \A k \in 1..(Len(progressLog) - 1) : progressLog[k] <= progressLog[k + 1]
        /\ \A k \in 1..Len(progressLog) : progressLog[k] \in 0..100
        /\ progressLog[Len(progressLog)] = 100

C6_Witness ==
    /\ pc = "done"
    /\ numChunks = 3
    /\ progressLog = <<5, 20, 40, 60, 85, 100>>

\* C7: only the call issued last can be in flight, so at most one is; the
\* transcription calls are issued in chunk order, each after the one before
\* it has settled; the analysis call is issued last, after every
\* transcription call of the run has settled.
C7_OneCallInFlight ==
    /\ \A k \in 1..(Len(calls) - 1) : calls[k].status # "inflight"
    /\ Cardinality({k \in 1..Len(calls) : calls[k].status = "inflight"}) <= 1
    /\ ChunkedMode => \A k \in TranscribeCalls : calls[k].chunk = k - 1
    /\ \A k \in AnalysisCalls :
          /\ k = Len(calls)
          /\ \A j \in 1..(k - 1) :
                calls[j].kind = "transcribe" /\ calls[j].status \in {"ok", "failed"}
          /\ ChunkedMode => k - 1 = numChunks
          /\ SinglePassMode => k - 1 = 1

C7_Witness ==
    /\ ChunkedMode
    /\ pc = "analysis_call"
    /\ Len(calls) = 4
    /\ calls[4].status = "inflight"
    /\ calls[2].status = "failed"

\* C8: in chunked mode, once the loop has finished there are numChunks
\* segments, segment k is the text or the placeholder of chunk k, and the raw
\* transcript is the segments in order with one space between neighbours.
C8_SegmentsJoined ==
    (ChunkedMode /\ Assembled) =>
        /\ Len(transcriptionParts) = numChunks
        /\ \A k \in 1..numChunks :
              /\ calls[k].kind = "transcribe"
              /\ calls[k].chunk = k - 1
              /\ calls[k].status = "ok" => transcriptionParts[k] = calls[k].response
              /\ calls[k].status = "failed" => NamesChunk(transcriptionParts[k], k)
        /\ rawTranscript = JoinedUpTo(transcriptionParts, numChunks)

C8_Witness ==
    /\ ChunkedMode
    /\ Assembled
    /\ transcriptionParts = << <<"a">>, <<"b">>, <<"c">> >>
    /\ rawTranscript = <<"a", " ", "b", " ", "c">>

\* C9: a run that has failed failed in the transcription step of a
\* single-pass run, at the empty-transcript check, or in the analysis step;
\* a chunked run that has failed had finished its loop over the chunks.
C9_FailureOnlyFromListedSteps ==
    pc = "rejected" =>
        /\ \/ SinglePassMode /\ error \in {"TranscriptionError", "EncodeError"}
           \/ error = EmptyTranscriptError
           \/ error \in {"SyntaxError", "AnalysisError"}
        /\ ChunkedMode => Len(transcriptionParts) = numChunks

\* C10: the duration probe never rejects; after the media element fired error
\* the duration is 0 and the run is a single-pass run.
C10_ProbeErrorIsSinglePass ==
    /\ pc = "rejected" => Len(progressLog) >= 2
    /\ (Probed /\ ~audioBlob.decodable) =>
          /\ duration = 0
          /\ progressLog[2] = 20
          /\ slices = <<>>
          /\ numChunks = 0
          /\ \A k \in TranscribeCalls :
                calls[k].from = 0 /\ calls[k].to = audioBlob.size

C10_Witness ==
    /\ ~audioBlob.decodable
    /\ pc = "single_call"
    /\ duration = 0
    /\ audioBlob.size > 0

\* C11: a run that has succeeded issued one analysis call, on the assembled
\* raw transcript; what it returns has the summary, actionItems and highlights
\* of the parsed payload and the assembled transcript as rawTranscript, also
\* when the payload has a rawTranscript of its own.
C11_ResultFromPayload ==
    pc = "done" =>
        /\ Cardinality(AnalysisCalls) = 1
        /\ \A k \in AnalysisCalls :
              /\ calls[k].text = rawTranscript
              /\ calls[k].status = "ok"
              /\ result.summary = calls[k].response.summary
              /\ result.actionItems = calls[k].response.actionItems
              /\ result.highlights = calls[k].response.highlights
        /\ SinglePassMode => rawTranscript = calls[1].response
        /\ ChunkedMode => rawTranscript = JoinedUpTo(transcriptionParts, numChunks)
        /\ result.rawTranscript = rawTranscript
        /\ DOMAIN result = {"summary", "actionItems", "highlights", "rawTranscript"}

C11_Witness ==
    /\ pc = "done"
    /\ "rawTranscript" \in DOMAIN calls[Len(calls)].response
    /\ calls[Len(calls)].response.rawTranscript # rawTranscript
    /\ result = [summary |-> "S", actionItems |-> <<"A1">>, highlights |-> <<"H1">>,
                 rawTranscript |-> <<"a", " ", "b">>]

\* r is (60 k / n) rounded to the nearest integer, halves up
IsRound60(r, k, n) == 2 * r * n <= 120 * k + n /\ 120 * k + n < 2 * (r + 1) * n

IsPrefix(s, t) == Len(s) <= Len(t) /\ s = SubSeq(t, 1, Len(s))

C17_LoopIterationsBounded ==
    pc \in {"chunk_encode", "chunk_call"} =>
        /\ IsFinite(numChunks)
        /\ numChunks - i \in Nat

----------------------------------------------------------------------------
(* The App around the pipeline *)

\* the step at which handleTranscribe's catch and finally run
FailedRunSettles == pc = "rejected" /\ pc' = "idle"

\* the step at which handleTranscribe's lines 60-69 and finally run
SuccessfulRunSettles == pc = "done" /\ pc' = "idle"

\* C12 as stated: a failed processAudio returns no TranscriptionData, and
\* when handleTranscribe has handled the failure the active recording is
\* null, the error message is set and the pending clip is the one the run
\* was started on.
C12_FailureLeavesAppAsStarted ==
    [][/\ (pc' = "rejected" => result' = EmptyResult)
       /\ (FailedRunSettles =>
              /\ activeRecording' = Null
              /\ errorMessage' # NoError
              /\ newAudioDetails' = transcribeClosure)]_vars

\* C12, amended: a failed processAudio returns no TranscriptionData, and
\* handleTranscribe's handling of the failure sets the error message to the
\* failure's message and changes neither the active recording, nor the
\* pending clip, nor the list, nor the store.
C12_FailureChangesOnlyError ==
    [][/\ (pc' = "rejected" => result' = EmptyResult)
       /\ (FailedRunSettles =>
              /\ errorMessage' = MessageOf(error)
              /\ errorMessage' # NoError
              /\ UNCHANGED <<activeRecording, newAudioDetails, recordings, store>>)]_vars

\* a failure has been handled: the empty-transcript message is shown and the
\* clip is still pending
C12_Witness ==
    /\ pc = "idle"
    /\ errorMessage = EmptyTranscriptError
    /\ activeRecording = Null
    /\ newAudioDetails # Null

----------------------------------------------------------------------------
(* The store *)

\* the records of st under other keys than id
OtherRecords(st, id) == {x \in st : x.id # id}

\* saveRecordingToDB(rec) on st gives a store where get(rec.id) is rec, once,
\* and the other records are those of st
PutIsMapUpdate(st, rec) ==
    LET after == DbPut(st, rec)
    IN  /\ DbGet(after, rec.id) = rec
        /\ Cardinality({x \in after : x.id = rec.id}) = 1
        /\ OtherRecords(after, rec.id) = OtherRecords(st, rec.id)

\* deleteRecordingFromDB(id) on st gives a store where get(id) is undefined
\* and the other records are those of st
DeleteIsMapRemoval(st, id) ==
    LET after == DbDelete(st, id)
    IN  /\ DbGet(after, id) = Null
        /\ OtherRecords(after, id) = OtherRecords(st, id)

\* C13: the store is a map keyed by id. No two records of the store share an
\* id, and whichever request the handlers have made of it, completing it on
\* the store as it is gives: for a put, a store where get of the record's id
\* returns the record, held once, the other records unchanged; for a delete,
\* a store where get of the id returns undefined, the other records
\* unchanged.
C13_StoreIsMapKeyedById ==
    /\ \A x, y \in store : x.id = y.id => x = y
    /\ \A k \in 1..Len(dbQueue) :
          /\ dbQueue[k].op = "put" => PutIsMapUpdate(store, dbQueue[k].rec)
          /\ dbQueue[k].op = "delete" => DeleteIsMapRemoval(store, dbQueue[k].id)

\* a save of a record whose id the store already holds, with other contents,
\* is next to complete, and a delete of a stored record has completed
C13_Witness ==
    /\ Serving("renamePut")
    /\ DbGet(store, Head(dbQueue).id) \notin {Null, Head(dbQueue).rec}
    /\ Cardinality(store) = 1

\* C15: while the processAudio that handleTranscribe started has not been
\* settled and handled, the processing status is active and shows the last
\* progress reported; once it is handled, success or failure, the status is
\* inactive with progress 0; and with no pending clip no run starts.
C15_StatusFollowsRun ==
    [][/\ (pc' # "idle" =>
              /\ processingStatus'.active
              /\ processingStatus'.progress = Last(progressLog'))
       /\ (pc' = "idle" => processingStatus' = IdleStatus)
       /\ (pc = "idle" /\ newAudioDetails = Null => pc' = "idle")]_vars

\* a run has succeeded and been handled: its recording is shown, unsaved, and
\* the status is back to inactive
C15_Witness ==
    /\ pc = "idle"
    /\ activeRecording # Null
    /\ activeRecording.id.temp
    /\ processingStatus = IdleStatus

----------------------------------------------------------------------------
(* The recordings list *)

MostRecentFirst(list) ==
    \A j, k \in 1..Len(list) : j < k => list[j].date >= list[k].date

\* C16: the recordings list of the app is ordered most recent first and none
\* of its entries carries an audioBlob, from the load on and through every
\* save, rename and delete.
C16_ListMostRecentFirstNoBlob ==
    /\ MostRecentFirst(recordings)
    /\ \A k \in 1..Len(recordings) : "audioBlob" \notin DOMAIN recordings[k]

\* the list was loaded with the two stored records, then a recording was
\* saved, and a rename has reached the list
C16_Witness ==
    /\ initialLoad = "ok"
    /\ Len(recordings) = Cardinality(InitialStore) + 1
    /\ recordings[1].id.n > Cardinality(InitialStore)
    /\ \E k \in 1..Len(recordings) : recordings[k].name = "Renamed"

----------------------------------------------------------------------------
(* Retrying, saving twice, renaming what is being deleted *)

\* the messages handleTranscribe's catch shows for the failures of a run
RunFailureMessages ==
    {MessageOf(e) : e \in {"EncodeError", "TranscriptionError", EmptyTranscriptError,
                           "SyntaxError", "AnalysisError"}}

\* C18: after a failed run, or with no failure at all, whenever a clip is
\* pending, no run is in progress and no recording is active, the
\* 'Transcribe & Analyze' action is available.
C18_RetryAvailable ==
    (/\ newAudioDetails # Null
     /\ ~processingStatus.active
     /\ activeRecording = Null
     /\ errorMessage \in RunFailureMessages \cup {NoError})
    => TranscribeAvailable

\* the records of the store, and the entries of the list, that come from the
\* clip of that URL
StoredFrom(url) == {x \in store : x.audioUrl = url}

ListedFrom(url) == {k \in 1..Len(recordings) : recordings[k].audioUrl = url}

\* C19: of one transcribed recording the store holds at most one record and
\* the list at most one entry, however the invocations of handleSave
\* interleave.
C19_PersistedAtMostOnce ==
    \A n \in 1..clipsMade :
        /\ Cardinality(StoredFrom(ObjectUrl("clip", n))) <= 1
        /\ Cardinality(ListedFrom(ObjectUrl("clip", n))) <= 1

IdsOfList == {recordings[k].id : k \in 1..Len(recordings)}

IdsOfStore == {x.id : x \in store}

\* C20: once the initial load has succeeded and no handler is in flight, the
\* ids of the recordings list are the ids of the store.
C20_ListMatchesStoreWhenQuiet ==
    (initialLoad = "ok" /\ dbQueue = <<>>) => IdsOfList = IdsOfStore

----------------------------------------------------------------------------
(* Unsaved recordings and the store *)

\* the request names no temp- id and carries no record with one
NamesNoTempId(req) ==
    /\ req.id # Null => ~req.id.temp
    /\ req.rec # Null => ~req.rec.id.temp

\* the step makes a request of the store for handleSave
SaveRequested ==
    /\ Len(dbQueue') = Len(dbQueue) + 1
    /\ Last(dbQueue').handler = "save"

\* C21: no record with a temp- id is ever in the store or the list, and no
\* request made of the store names a temp- id or carries a record with one;
\* handleSave makes its request only for an unsaved active recording, under a
\* permanent id; and a step that leaves the unsaved recording active changes
\* nothing of it but its name.
C21_NoTempIdReachesStore ==
    [][/\ \A x \in store' : ~x.id.temp
       /\ \A k \in 1..Len(recordings') : ~recordings'[k].id.temp
       /\ \A k \in 1..Len(dbQueue') : NamesNoTempId(dbQueue'[k])
       /\ (SaveRequested =>
              /\ activeRecording # Null
              /\ activeRecording.id.temp
              /\ Last(dbQueue').rec = [activeRecording EXCEPT !.id = Last(dbQueue').id])
       /\ (/\ activeRecording # Null
           /\ activeRecording.id.temp
           /\ activeRecording' # Null
           /\ activeRecording'.id = activeRecording.id
           => activeRecording' =
                 [activeRecording EXCEPT !.name = activeRecording'.name])]_vars

\* the unsaved recording was renamed in memory, nothing was asked of the
\* store for that, and its save, under a permanent id, is next to complete
C21_Witness ==
    /\ activeRecording # Null
    /\ activeRecording.id.temp
    /\ activeRecording.name = "Renamed"
    /\ requestsMade = 1
    /\ Serving("save")
    /\ Head(dbQueue).rec.name = "Renamed"
    /\ ~Head(dbQueue).rec.id.temp

----------------------------------------------------------------------------
(* Chunked runs with failed chunks *)

FailedChunkCalls == {k \in TranscribeCalls : calls[k].status = "failed"}

\* C22: in chunked mode, once the transcript is assembled with at least one
\* chunk's call failed, it is not blank and the run has not failed for an
\* empty transcript: it is at the analysis call, or has returned, or has
\* failed in the analysis.
C22_FailedChunkNeverBlank ==
    (ChunkedMode /\ Assembled /\ FailedChunkCalls # {}) =>
        /\ ~Blank(rawTranscript)
        /\ ~IsBlank(rawTranscript)
        /\ error # EmptyTranscriptError
        /\ \/ pc \in {"analysis_call", "done"}
           \/ pc = "rejected" /\ error \in {"SyntaxError", "AnalysisError"}

\* every chunk's call failed and the run returned its TranscriptionData
C22_Witness ==
    /\ ChunkedMode
    /\ pc = "done"
    /\ numChunks = 3
    /\ FailedChunkCalls = 1..numChunks
    /\ result # EmptyResult
    /\ result.rawTranscript = rawTranscript

====
